---- MODULE Spec2Model ----
(***************************************************************************)
(* Model of the BMP280 barometer driver, src/src/drv_bmp280.c.             *)
(*                                                                         *)
(* The driver is a singleton: its state is the file's static variables.    *)
(* Every driver function is one action.  The bus primitives i2cRead and     *)
(* i2cWrite and the delay primitive are external; what a read returns and   *)
(* whether a transaction succeeds are inputs of the action.                 *)
(***************************************************************************)
EXTENDS Integers, Sequences, FiniteSets, TLC

(***************************************************************************)
(* Integer helpers: C's unsigned shifts and bitwise or on 32-bit values.   *)
(***************************************************************************)
Pow2(n) == 2 ^ n

\* Operands are bytes and n <= 12 in this driver: no 32-bit wrap-around occurs.
Shl(x, n) == x * Pow2(n)

Shr(x, n) == x \div Pow2(n)

RECURSIVE BitOr(_, _)
BitOr(x, y) ==
    IF x = 0 THEN y
    ELSE IF y = 0 THEN x
    ELSE (IF (x % 2 = 1) \/ (y % 2 = 1) THEN 1 ELSE 0)
         + 2 * BitOr(x \div 2, y \div 2)

Abs(i) == IF i < 0 THEN 0 - i ELSE i

(***************************************************************************)
(* IEEE-754 binary32 arithmetic, as the C float operations of the driver   *)
(* perform it (each operation rounded to nearest, ties to even).  A float  *)
(* is [s, m, e] with value (-1)^s * m * 2^e, where m = 0 (zero) or         *)
(* 2^23 <= m < 2^24.  Subnormals, infinities and NaN do not arise for the  *)
(* calibration blocks and frames of this model (FloatOk states the range). *)
(***************************************************************************)
FZero == [s |-> 0, m |-> 0, e |-> 0]

\* Shift a non-zero mantissa below 2^23 left until it is normal (exact).
RECURSIVE NormLeft(_, _, _)
NormLeft(s, m, e) ==
    IF m >= 8388608 THEN [s |-> s, m |-> m, e |-> e]
    ELSE IF m < 4096 THEN NormLeft(s, m * 4096, e - 12)
    ELSE NormLeft(s, m * 2, e - 1)

\* The number of bits by which m (< 2^31) exceeds 24 bits.
RECURSIVE Excess(_)
Excess(m) == IF m < 16777216 THEN 0 ELSE 1 + Excess(m \div 2)

\* Round m * 2^e to binary32.  m < 2^31; when the exact value has bits below
\* m's last bit, that last bit is set (a sticky bit) and m >= 2^25.
RoundPack(s, m, e) ==
    IF m = 0 THEN FZero
    ELSE IF m < 16777216 THEN NormLeft(s, m, e)
    ELSE LET k == Excess(m)
             q == m \div Pow2(k)
             rem == m % Pow2(k)
             half == Pow2(k - 1)
             up == (rem > half) \/ (rem = half /\ q % 2 = 1)
             q1 == IF up THEN q + 1 ELSE q
         IN  IF q1 = 16777216
             THEN [s |-> s, m |-> 8388608, e |-> e + k + 1]
             ELSE [s |-> s, m |-> q1, e |-> e + k]

\* (float)i for a 32-bit integer i, |i| < 2^31.
FromInt(i) == RoundPack(IF i < 0 THEN 1 ELSE 0, Abs(i), 0)

FNeg(a) == IF a.m = 0 THEN a ELSE [a EXCEPT !.s = 1 - a.s]

\* m shifted right by d bits, the bits shifted out or-ed into the last bit.
ShrSticky(m, d) ==
    IF d >= 30 THEN (IF m = 0 THEN 0 ELSE 1)
    ELSE LET q == m \div Pow2(d)
         IN  IF m % Pow2(d) = 0 THEN q
             ELSE IF q % 2 = 1 THEN q ELSE q + 1

\* a + b for |a| >= |b|, with three guard bits.
AddOrdered(a, b) ==
    LET ma == a.m * 8
        mb == ShrSticky(b.m * 8, a.e - b.e)
    IN  IF a.s = b.s
        THEN RoundPack(a.s, ma + mb, a.e - 3)
        ELSE RoundPack(a.s, ma - mb, a.e - 3)

FAdd(a, b) ==
    IF a.m = 0 THEN b
    ELSE IF b.m = 0 THEN a
    ELSE IF (a.e > b.e) \/ (a.e = b.e /\ a.m >= b.m)
    THEN AddOrdered(a, b)
    ELSE AddOrdered(b, a)

FSub(a, b) == FAdd(a, FNeg(b))

\* a * b: the 48-bit product of the mantissas in 12-bit halves.
FMul(a, b) ==
    IF a.m = 0 \/ b.m = 0 THEN FZero
    ELSE LET a1 == a.m \div 4096
             a0 == a.m % 4096
             b1 == b.m \div 4096
             b0 == b.m % 4096
             mid == a1 * b0 + a0 * b1
             low == (mid % 4096) * 4096 + a0 * b0
             hi == a1 * b1 + (mid \div 4096) + (low \div 16777216)
             lo == low % 16777216
             top == hi * 64 + (lo \div 262144)
             sticky == IF lo % 262144 = 0 THEN 0 ELSE 1
         IN  RoundPack((a.s + b.s) % 2, top * 2 + sticky, a.e + b.e + 17)

\* One step of long division: n more quotient bits of r / d.
DivStep(qr, d, n) ==
    [q |-> qr.q * Pow2(n) + ((qr.r * Pow2(n)) \div d),
     r |-> (qr.r * Pow2(n)) % d]

\* a / b for b # 0: 26 quotient bits below the leading one, then a sticky bit.
FDiv(a, b) ==
    IF a.m = 0 THEN FZero
    ELSE LET s0 == [q |-> a.m \div b.m, r |-> a.m % b.m]
             s1 == DivStep(s0, b.m, 6)
             s2 == DivStep(s1, b.m, 6)
             s3 == DivStep(s2, b.m, 6)
             s4 == DivStep(s3, b.m, 6)
             s5 == DivStep(s4, b.m, 2)
             sticky == IF s5.r = 0 THEN 0 ELSE 1
         IN  RoundPack((a.s + b.s) % 2, s5.q * 2 + sticky, a.e - b.e - 27)

\* (int32_t)f: truncation toward zero, for |f| < 2^31.
ToInt(f) ==
    LET mag == IF f.e >= 0 THEN f.m * Pow2(f.e)
               ELSE IF f.e <= -24 THEN 0
               ELSE f.m \div Pow2(0 - f.e)
    IN  IF f.s = 1 THEN 0 - mag ELSE mag

\* The float is zero or a normal binary32 number.
FloatOk(f) == f.m = 0 \/ (f.e >= -149 /\ f.e <= 104)

\* f fits a 32-bit integer after truncation.
FitsInt32(f) == f.m = 0 \/ f.e <= 7

(***************************************************************************)
(* Register map and configuration, the driver's #defines.                  *)
(***************************************************************************)
BMP280_DEFAULT_CHIP_ID == 88

BMP280_CHIP_ID_REG == 208

BMP280_CTRL_MEAS_REG == 244

BMP280_PRESSURE_MSB_REG == 247

BMP280_FORCED_MODE == 1

BMP280_TEMPERATURE_CALIB_DIG_T1_LSB_REG == 136

BMP280_PRESSURE_TEMPERATURE_CALIB_DATA_LENGTH == 24

BMP280_DATA_FRAME_SIZE == 6

BMP280_OVERSAMP_1X == 1

BMP280_OVERSAMP_8X == 4

BMP280_PRESSURE_OSR == BMP280_OVERSAMP_8X

BMP280_TEMPERATURE_OSR == BMP280_OVERSAMP_1X

BMP280_MODE_shifted3 ==
    BitOr(BitOr(Shl(BMP280_PRESSURE_OSR, 3), Shl(BMP280_TEMPERATURE_OSR, 5)),
          BMP280_FORCED_MODE)

\* BMP280_PRESSURE_OSR << 2 | BMP280_TEMPERATURE_OSR << 5 | BMP280_FORCED_MODE
BMP280_MODE ==
    BitOr(BitOr(Shl(BMP280_PRESSURE_OSR, 2), Shl(BMP280_TEMPERATURE_OSR, 5)),
          BMP280_FORCED_MODE)

T_INIT_MAX == 20

T_MEASURE_PER_OSRS_MAX == 37

T_SETUP_PRESSURE_MAX == 10

\* The startup delay of bmp280Detect, in milliseconds.
DETECT_DELAY_MS == 20

\* The up_delay expression without the "+ 15" that rounds the division by 16
\* up.
UpDelay_roundsDown(t, p) ==
    ((T_INIT_MAX
      + T_MEASURE_PER_OSRS_MAX * (Shr(Shl(1, t), 1) + Shr(Shl(1, p), 1))
      + (IF p # 0 THEN T_SETUP_PRESSURE_MAX ELSE 0)) \div 16) * 1000

\* The expression assigned to baro->up_delay, for oversampling codes t and p.
UpDelay(t, p) ==
    ((T_INIT_MAX
      + T_MEASURE_PER_OSRS_MAX * (Shr(Shl(1, t), 1) + Shr(Shl(1, p), 1))
      + (IF p # 0 THEN T_SETUP_PRESSURE_MAX ELSE 0)
      + 15) \div 16) * 1000

(***************************************************************************)
(* Inputs: what the device and the bus can answer.                         *)
(***************************************************************************)
\* The number of capability structs (baro_t) the caller owns.
NumBaro == 2

\* A cap on the identity reads, calibration reads and control writes counted
\* for detection.
MaxBusCount == 3

Baros == 1..NumBaro

\* Identity bytes a device at the address may answer: BMP280, no answer, BME280.
IdBytes == {BMP280_DEFAULT_CHIP_ID, 0, 96}

\* The calibration region of the data sheet's reference device:
\* T1=27504 T2=26435 T3=-1000 P1=36477 P2=-10685 P3=3024 P4=2855 P5=140
\* P6=-7 P7=15500 P8=-14600 P9=6000, little-endian.
RefCalBlock ==
    <<112, 107, 67, 103, 24, 252, 125, 142, 67, 214, 208, 11,
      39, 11, 140, 0, 249, 255, 140, 60, 248, 198, 112, 23>>

\* The same region with dig_P1 = 0 (a degenerate calibration).
ZeroP1CalBlock ==
    <<112, 107, 67, 103, 24, 252, 0, 0, 67, 214, 208, 11,
      39, 11, 140, 0, 249, 255, 140, 60, 248, 198, 112, 23>>

CalBlocks == {RefCalBlock, ZeroP1CalBlock}

\* Measurement frames: the data sheet's example (adc_P=415148, adc_T=519888),
\* two frames with low nibbles set in the XLSB bytes, and the all-ones frame.
Frames ==
    { <<101, 90, 192, 126, 237, 0>>,
      <<90, 60, 16, 128, 0, 0>>,
      <<171, 205, 224, 126, 237, 15>>,
      <<255, 255, 255, 255, 255, 255>> }

(***************************************************************************)
(* State.                                                                  *)
(***************************************************************************)
VARIABLES
    bmp280_chip_id,   \* static uint8_t bmp280_chip_id
    bmp280InitDone,   \* static bool bmp280InitDone
    bmp280_cal,       \* static bmp280_calib_param_t bmp280_cal
    bmp280_up,        \* static int32_t bmp280_up
    bmp280_ut,        \* static int32_t bmp280_ut
    baro,             \* the caller's baro_t structs
    nIdRead,          \* identity reads issued so far
    nCalRead,         \* 24-byte calibration reads issued so far
    nDetectWrite,     \* control-register writes issued by bmp280Detect so far
    last,             \* the last driver call: what it did and returned
    passed,           \* the baro_t passed to the last call if it was bmp280Detect
    dev               \* the device's measurement side, where it is tracked

driver == <<bmp280_chip_id, bmp280InitDone, bmp280_cal, bmp280_up, bmp280_ut>>

counts == <<nIdRead, nCalRead, nDetectWrite>>

vars == <<bmp280_chip_id, bmp280InitDone, bmp280_cal, bmp280_up, bmp280_ut,
          baro, nIdRead, nCalRead, nDetectWrite, last, passed, dev>>

\* A zero-initialised bmp280_calib_param_t.
ZeroCal ==
    [dig_T1 |-> 0, dig_T2 |-> 0, dig_T3 |-> 0, dig_P1 |-> 0, dig_P2 |-> 0,
     dig_P3 |-> 0, dig_P4 |-> 0, dig_P5 |-> 0, dig_P6 |-> 0, dig_P7 |-> 0,
     dig_P8 |-> 0, dig_P9 |-> 0, t_fine |-> 0]

\* A zero-initialised baro_t.
ZeroBaro ==
    [ut_delay |-> 0, up_delay |-> 0, start_ut |-> "NULL", get_ut |-> "NULL",
     start_up |-> "NULL", get_up |-> "NULL", calculate |-> "NULL"]

\* A baro_t that an earlier, failed probe of another sensor driver wrote to.
StaleBaro == [ZeroBaro EXCEPT !.ut_delay = 6000, !.up_delay = 27000]

\* Bus transactions: i2cRead(addr, reg, len, buf) and i2cWrite(addr, reg, data).
I2cRead(reg, len, ok) == [rw |-> "read", reg |-> reg, n |-> len, ok |-> ok]

I2cWrite(reg, val, ok) == [rw |-> "write", reg |-> reg, n |-> val, ok |-> ok]

NoResult == [wroteP |-> FALSE, pressure |-> 0, wroteT |-> FALSE, temperature |-> 0]

\* The record of a call that only talks to the bus.
Call(op, ret, delayed, txn, data) ==
    [op |-> op, ret |-> ret, delayed |-> delayed, txn |-> txn, data |-> data,
     result |-> NoResult, tfineIn |-> bmp280_cal.t_fine,
     tfineRead |-> bmp280_cal.t_fine]

DriverInit ==
    /\ bmp280_chip_id = 0
    /\ bmp280InitDone = FALSE
    /\ bmp280_cal = ZeroCal
    /\ bmp280_up = 0
    /\ bmp280_ut = 0
    /\ baro \in [Baros -> {ZeroBaro, StaleBaro}]
    /\ nIdRead = 0
    /\ nCalRead = 0
    /\ nDetectWrite = 0
    /\ last = Call("none", FALSE, 0, <<>>, <<>>)
    /\ passed = 0

\* The device left untracked: any frame may be read at any time.
NoDevice == [regs |-> <<>>, conv |-> 0, pending |-> 0, starts |-> 0,
             idleStart |-> FALSE, collected |-> -1]

Init == DriverInit /\ dev = NoDevice

(***************************************************************************)
(* Pure functions of the driver.                                           *)
(***************************************************************************)
\* A little-endian unsigned / signed 16-bit field of the calibration region.
U16(lo, hi) == lo + 256 * hi

S16(lo, hi) == IF U16(lo, hi) >= 32768 THEN U16(lo, hi) - 65536 ELSE U16(lo, hi)

\* i2cRead of 24 bytes into (uint8_t *)&bmp280_cal: the twelve 16-bit fields
\* are overwritten in declaration order; t_fine lies beyond the 24 bytes.
LoadCal(cal, blk) ==
    [cal EXCEPT
        !.dig_T1 = U16(blk[1], blk[2]),
        !.dig_T2 = S16(blk[3], blk[4]),
        !.dig_T3 = S16(blk[5], blk[6]),
        !.dig_P1 = U16(blk[7], blk[8]),
        !.dig_P2 = S16(blk[9], blk[10]),
        !.dig_P3 = S16(blk[11], blk[12]),
        !.dig_P4 = S16(blk[13], blk[14]),
        !.dig_P5 = S16(blk[15], blk[16]),
        !.dig_P6 = S16(blk[17], blk[18]),
        !.dig_P7 = S16(blk[19], blk[20]),
        !.dig_P8 = S16(blk[21], blk[22]),
        !.dig_P9 = S16(blk[23], blk[24])]

\* The three bytes packed as a 24-bit value, without the 20-bit alignment.
DecodeRaw_24bit(msb, lsb, xlsb) == BitOr(BitOr(Shl(msb, 16), Shl(lsb, 8)), xlsb)

\* The packing with the XLSB byte left unshifted.
DecodeRaw_noShift(msb, lsb, xlsb) == BitOr(BitOr(Shl(msb, 12), Shl(lsb, 4)), xlsb)

\* (data[0] << 12) | (data[1] << 4) | (data[2] >> 4)
DecodeRaw(msb, lsb, xlsb) == BitOr(BitOr(Shl(msb, 12), Shl(lsb, 4)), Shr(xlsb, 4))

\* 2147483648.0f
F2P31 == [s |-> 0, m |-> 8388608, e |-> 8]

\* bmp280_compensate_T without the quadratic term var2.
bmp280_compensate_T_linear(cal, adc_T) ==
    LET var1 == FMul(FSub(FDiv(FromInt(adc_T), FromInt(16384)),
                          FDiv(FromInt(cal.dig_T1), FromInt(1024))),
                     FromInt(cal.dig_T2))
    IN  [T |-> FDiv(var1, FromInt(5120)), t_fine |-> ToInt(var1)]

\* bmp280_compensate_T: the returned temperature and the t_fine it stores.
bmp280_compensate_T(cal, adc_T) ==
    LET var1 == FMul(FSub(FDiv(FromInt(adc_T), FromInt(16384)),
                          FDiv(FromInt(cal.dig_T1), FromInt(1024))),
                     FromInt(cal.dig_T2))
        d == FSub(FDiv(FromInt(adc_T), FromInt(131072)),
                  FDiv(FromInt(cal.dig_T1), FromInt(8192)))
        var2 == FMul(FMul(d, d), FromInt(cal.dig_T3))
        sum == FAdd(var1, var2)
    IN  [T |-> FDiv(sum, FromInt(5120)), t_fine |-> ToInt(sum)]

\* bmp280_compensate_P whose zero-divisor guard returns p as initialised
\* (1048576 - adc_P) instead of 0.
bmp280_compensate_P_returnsP(cal, adc_P) ==
    LET v1a == FSub(FDiv(FromInt(cal.t_fine), FromInt(2)), FromInt(64000))
        v2a == FDiv(FMul(FMul(v1a, v1a), FromInt(cal.dig_P6)), FromInt(32768))
        v2b == FAdd(v2a, FMul(FMul(v1a, FromInt(cal.dig_P5)), FromInt(2)))
        v2c == FAdd(FDiv(v2b, FromInt(4)),
                    FMul(FromInt(cal.dig_P4), FromInt(65536)))
        v1b == FDiv(FAdd(FDiv(FMul(FMul(FromInt(cal.dig_P3), v1a), v1a),
                              FromInt(524288)),
                         FMul(FromInt(cal.dig_P2), v1a)),
                    FromInt(524288))
        v1c == FMul(FAdd(FromInt(1), FDiv(v1b, FromInt(32768))),
                    FromInt(cal.dig_P1))
        p0 == FSub(FromInt(1048576), FromInt(adc_P))
        p1 == FDiv(FMul(FSub(p0, FDiv(v2c, FromInt(4096))), FromInt(6250)), v1c)
        v1d == FDiv(FMul(FMul(FromInt(cal.dig_P9), p1), p1), F2P31)
        v2d == FDiv(FMul(p1, FromInt(cal.dig_P8)), FromInt(32768))
    IN  IF v1c.m = 0 THEN p0
        ELSE FAdd(p1, FDiv(FAdd(FAdd(v1d, v2d), FromInt(cal.dig_P7)),
                           FromInt(16)))

\* bmp280_compensate_P: the returned pressure, read from cal (t_fine included).
bmp280_compensate_P(cal, adc_P) ==
    LET v1a == FSub(FDiv(FromInt(cal.t_fine), FromInt(2)), FromInt(64000))
        v2a == FDiv(FMul(FMul(v1a, v1a), FromInt(cal.dig_P6)), FromInt(32768))
        v2b == FAdd(v2a, FMul(FMul(v1a, FromInt(cal.dig_P5)), FromInt(2)))
        v2c == FAdd(FDiv(v2b, FromInt(4)),
                    FMul(FromInt(cal.dig_P4), FromInt(65536)))
        v1b == FDiv(FAdd(FDiv(FMul(FMul(FromInt(cal.dig_P3), v1a), v1a),
                              FromInt(524288)),
                         FMul(FromInt(cal.dig_P2), v1a)),
                    FromInt(524288))
        v1c == FMul(FAdd(FromInt(1), FDiv(v1b, FromInt(32768))),
                    FromInt(cal.dig_P1))
        p0 == FSub(FromInt(1048576), FromInt(adc_P))
        p1 == FDiv(FMul(FSub(p0, FDiv(v2c, FromInt(4096))), FromInt(6250)), v1c)
        v1d == FDiv(FMul(FMul(FromInt(cal.dig_P9), p1), p1), F2P31)
        v2d == FDiv(FMul(p1, FromInt(cal.dig_P8)), FromInt(32768))
    IN  IF v1c.m = 0 THEN FZero
        ELSE FAdd(p1, FDiv(FAdd(FAdd(v1d, v2d), FromInt(cal.dig_P7)),
                           FromInt(16)))

(***************************************************************************)
(* The compensation functions tabulated over every calibration, raw sample *)
(* and t_fine value the model's inputs can produce, so that each float     *)
(* computation is carried out once.                                        *)
(***************************************************************************)
DecodedCals == {ZeroCal} \cup {LoadCal(ZeroCal, blk) : blk \in CalBlocks}

RawValues ==
    {0} \cup {DecodeRaw(f[1], f[2], f[3]) : f \in Frames}
        \cup {DecodeRaw(f[4], f[5], f[6]) : f \in Frames}

CalKey(cal) == [cal EXCEPT !.t_fine = 0]

TempTable == [c \in DecodedCals, adc_T \in RawValues |-> bmp280_compensate_T(c, adc_T)]

TFineValues == {0} \cup {TempTable[c, adc_T].t_fine : c \in DecodedCals, adc_T \in RawValues}

PressTable ==
    [c \in DecodedCals, tf \in TFineValues, adc_P \in RawValues |->
        bmp280_compensate_P([c EXCEPT !.t_fine = tf], adc_P)]

\* Every tabulated float is in binary32's normal range and every float that
\* the driver casts to int32_t fits: the casts of the model are defined.
TablesInRange ==
    /\ \A k \in DOMAIN TempTable : FloatOk(TempTable[k].T) /\ FitsInt32(TempTable[k].T)
    /\ \A k \in DOMAIN PressTable : FloatOk(PressTable[k]) /\ FitsInt32(PressTable[k])

\* bmp280_compensate_T(adc_T) on calibration cal.
CompensateT(cal, adc_T) == TempTable[CalKey(cal), adc_T]

\* bmp280_compensate_P(adc_P) on calibration cal, whose t_fine it reads.
CompensateP(cal, adc_P) == PressTable[CalKey(cal), cal.t_fine, adc_P]

(***************************************************************************)
(* bmp280Detect(baro_t *baro).                                             *)
(* b: the struct passed; id: the byte the device answers at the identity   *)
(* register; blk: its calibration region; okId, okCal, okWr: whether each  *)
(* bus transaction succeeds (a failed read leaves its buffer untouched).   *)
(***************************************************************************)
\* if (bmp280InitDone) return true;
AlreadyDetected_never == FALSE

AlreadyDetected == bmp280InitDone

\* if (bmp280_chip_id != BMP280_DEFAULT_CHIP_ID) return false;
ChipIdMatches_any(chip) == TRUE

ChipIdMatches(chip) == chip = BMP280_DEFAULT_CHIP_ID

\* The assignments to *baro after bmp280InitDone = true.
FillBaro(old) ==
    [old EXCEPT
        !.ut_delay = 0,
        !.get_ut = "bmp280_get_ut",
        !.start_ut = "bmp280_start_ut",
        !.up_delay = UpDelay(BMP280_TEMPERATURE_OSR, BMP280_PRESSURE_OSR),
        !.start_up = "bmp280_start_up",
        !.get_up = "bmp280_get_up",
        !.calculate = "bmp280_calculate"]

\* The same return with delay(20) placed before the bmp280InitDone test.
DetectShortCircuit_delayFirst ==
    /\ last' = Call("detect", TRUE, DETECT_DELAY_MS, <<>>, <<>>)
    /\ UNCHANGED <<driver, baro, counts>>

\* A short circuit that reads the calibration region again on every call.
DetectShortCircuit_reloads ==
    /\ \E blk \in CalBlocks : bmp280_cal' = LoadCal(bmp280_cal, blk)
    /\ last' = Call("detect", TRUE, 0, <<>>, <<>>)
    /\ UNCHANGED <<bmp280_chip_id, bmp280InitDone, bmp280_up, bmp280_ut, baro, counts>>

\* if (bmp280InitDone) return true;  -- before the delay and any bus traffic.
DetectShortCircuit ==
    /\ last' = Call("detect", TRUE, 0, <<>>, <<>>)
    /\ UNCHANGED <<driver, baro, counts>>

\* A probe that reads the calibration region before it checks the identity.
DetectProbe_calFirst(b, id, blk, okId, okCal, okWr) ==
    LET chip == IF okId THEN id ELSE bmp280_chip_id
        idRead == I2cRead(BMP280_CHIP_ID_REG, 1, okId)
        calRead == I2cRead(BMP280_TEMPERATURE_CALIB_DIG_T1_LSB_REG,
                           BMP280_PRESSURE_TEMPERATURE_CALIB_DATA_LENGTH, okCal)
        ctrlWrite == I2cWrite(BMP280_CTRL_MEAS_REG, BMP280_MODE, okWr)
    IN  /\ nIdRead < MaxBusCount
        /\ nCalRead < MaxBusCount
        /\ nIdRead' = nIdRead + 1
        /\ nCalRead' = nCalRead + 1
        /\ bmp280_chip_id' = chip
        /\ bmp280_cal' = IF okCal THEN LoadCal(bmp280_cal, blk) ELSE bmp280_cal
        /\ IF ~ChipIdMatches(chip)
           THEN /\ last' = Call("detect", FALSE, DETECT_DELAY_MS,
                                <<calRead, idRead>>, <<>>)
                /\ UNCHANGED <<bmp280InitDone, bmp280_up, bmp280_ut,
                               baro, nDetectWrite>>
           ELSE /\ nDetectWrite < MaxBusCount
                /\ nDetectWrite' = nDetectWrite + 1
                /\ bmp280InitDone' = TRUE
                /\ baro' = [baro EXCEPT ![b] = FillBaro(baro[b])]
                /\ last' = Call("detect", TRUE, DETECT_DELAY_MS,
                                <<calRead, idRead, ctrlWrite>>, <<>>)
                /\ UNCHANGED <<bmp280_up, bmp280_ut>>

DetectProbe(b, id, blk, okId, okCal, okWr) ==
    LET chip == IF okId THEN id ELSE bmp280_chip_id
        idRead == I2cRead(BMP280_CHIP_ID_REG, 1, okId)
        calRead == I2cRead(BMP280_TEMPERATURE_CALIB_DIG_T1_LSB_REG,
                           BMP280_PRESSURE_TEMPERATURE_CALIB_DATA_LENGTH, okCal)
        ctrlWrite == I2cWrite(BMP280_CTRL_MEAS_REG, BMP280_MODE, okWr)
    IN  /\ nIdRead < MaxBusCount
        /\ nIdRead' = nIdRead + 1
        /\ bmp280_chip_id' = chip
        /\ IF ~ChipIdMatches(chip)
           THEN /\ last' = Call("detect", FALSE, DETECT_DELAY_MS, <<idRead>>, <<>>)
                /\ UNCHANGED <<bmp280InitDone, bmp280_cal, bmp280_up, bmp280_ut,
                               baro, nCalRead, nDetectWrite>>
           ELSE /\ nCalRead < MaxBusCount
                /\ nDetectWrite < MaxBusCount
                /\ bmp280_cal' = IF okCal THEN LoadCal(bmp280_cal, blk)
                                 ELSE bmp280_cal
                /\ nCalRead' = nCalRead + 1
                /\ nDetectWrite' = nDetectWrite + 1
                /\ bmp280InitDone' = TRUE
                /\ baro' = [baro EXCEPT ![b] = FillBaro(baro[b])]
                /\ last' = Call("detect", TRUE, DETECT_DELAY_MS,
                                <<idRead, calRead, ctrlWrite>>, <<>>)
                /\ UNCHANGED <<bmp280_up, bmp280_ut>>

\* A bmp280Detect that remembers a failed probe and answers false from then on.
bmp280Detect_cachesFailure(b, id, blk, okId, okCal, okWr) ==
    IF AlreadyDetected
    THEN DetectShortCircuit
    ELSE IF nIdRead > 0
    THEN /\ last' = Call("detect", FALSE, 0, <<>>, <<>>)
         /\ UNCHANGED <<driver, baro, counts>>
    ELSE DetectProbe(b, id, blk, okId, okCal, okWr)

bmp280Detect(b, id, blk, okId, okCal, okWr) ==
    IF AlreadyDetected
    THEN DetectShortCircuit
    ELSE DetectProbe(b, id, blk, okId, okCal, okWr)

(***************************************************************************)
(* The static functions, callable only through the pointers that a         *)
(* successful bmp280Detect stored in a baro_t.                             *)
(***************************************************************************)
Installed(fn) ==
    \E b \in Baros :
        fn \in {baro[b].start_ut, baro[b].get_ut, baro[b].start_up,
                baro[b].get_up, baro[b].calculate}

\* A start_ut that arms a conversion as bmp280_start_up does.
bmp280_start_ut_writes ==
    /\ Installed("bmp280_start_ut")
    /\ last' = Call("start_ut", TRUE, 0,
                    <<I2cWrite(BMP280_CTRL_MEAS_REG, BMP280_MODE, TRUE)>>, <<>>)
    /\ UNCHANGED <<driver, baro, counts>>

\* static void bmp280_start_ut(void): dummy
bmp280_start_ut ==
    /\ Installed("bmp280_start_ut")
    /\ last' = Call("start_ut", TRUE, 0, <<>>, <<>>)
    /\ UNCHANGED <<driver, baro, counts>>

\* static void bmp280_get_ut(void): dummy
bmp280_get_ut ==
    /\ Installed("bmp280_get_ut")
    /\ last' = Call("get_ut", TRUE, 0, <<>>, <<>>)
    /\ UNCHANGED <<driver, baro, counts>>

\* static void bmp280_start_up(void): one write of BMP280_MODE.
bmp280_start_up(okWr) ==
    /\ Installed("bmp280_start_up")
    /\ last' = Call("start_up", TRUE, 0,
                    <<I2cWrite(BMP280_CTRL_MEAS_REG, BMP280_MODE, okWr)>>, <<>>)
    /\ UNCHANGED <<driver, baro, counts>>

\* bmp280_get_up that decodes the pressure sample only and leaves bmp280_ut.
bmp280_get_up_keepsUt(f, okRd) ==
    /\ Installed("bmp280_get_up")
    /\ bmp280_up' = DecodeRaw(f[1], f[2], f[3])
    /\ last' = Call("get_up", TRUE, 0,
                    <<I2cRead(BMP280_PRESSURE_MSB_REG, BMP280_DATA_FRAME_SIZE, okRd)>>,
                    f)
    /\ UNCHANGED <<bmp280_chip_id, bmp280InitDone, bmp280_cal, bmp280_ut, baro, counts>>

\* static void bmp280_get_up(void): one read of 6 bytes into data[], then the
\* decode of both raw samples.  When the read fails data[] keeps whatever the
\* uninitialised stack buffer held; f is that content then.
bmp280_get_up(f, okRd) ==
    /\ Installed("bmp280_get_up")
    /\ bmp280_up' = DecodeRaw(f[1], f[2], f[3])
    /\ bmp280_ut' = DecodeRaw(f[4], f[5], f[6])
    /\ last' = Call("get_up", TRUE, 0,
                    <<I2cRead(BMP280_PRESSURE_MSB_REG, BMP280_DATA_FRAME_SIZE, okRd)>>,
                    f)
    /\ UNCHANGED <<bmp280_chip_id, bmp280InitDone, bmp280_cal, baro, counts>>

\* The same function with the two compensation calls in the opposite order.
bmp280_calculate_P_first(wantP, wantT) ==
    /\ Installed("bmp280_calculate")
    /\ LET p == CompensateP(bmp280_cal, bmp280_up)
           rt == CompensateT(bmp280_cal, bmp280_ut)
       IN  /\ bmp280_cal' = [bmp280_cal EXCEPT !.t_fine = rt.t_fine]
           /\ last' = [op |-> "calculate", ret |-> TRUE, delayed |-> 0,
                       txn |-> <<>>, data |-> <<>>,
                       result |->
                           [wroteP |-> wantP,
                            pressure |-> IF wantP THEN ToInt(p) ELSE 0,
                            wroteT |-> wantT,
                            temperature |-> IF wantT THEN ToInt(rt.T) * 100 ELSE 0],
                       tfineIn |-> bmp280_cal.t_fine,
                       tfineRead |-> bmp280_cal.t_fine]
    /\ UNCHANGED <<bmp280_chip_id, bmp280InitDone, bmp280_up, bmp280_ut, baro, counts>>

\* bmp280_calculate that scales the temperature by 100 before the cast:
\* (int32_t)(t * 100).
bmp280_calculate_scalesFirst(wantP, wantT) ==
    /\ Installed("bmp280_calculate")
    /\ LET rt == CompensateT(bmp280_cal, bmp280_ut)
           cal1 == [bmp280_cal EXCEPT !.t_fine = rt.t_fine]
           p == CompensateP(cal1, bmp280_up)
       IN  /\ bmp280_cal' = cal1
           /\ last' = [op |-> "calculate", ret |-> TRUE, delayed |-> 0,
                       txn |-> <<>>, data |-> <<>>,
                       result |->
                           [wroteP |-> wantP,
                            pressure |-> IF wantP THEN ToInt(p) ELSE 0,
                            wroteT |-> wantT,
                            temperature |->
                                IF wantT THEN ToInt(FMul(rt.T, FromInt(100))) ELSE 0],
                       tfineIn |-> bmp280_cal.t_fine,
                       tfineRead |-> cal1.t_fine]
    /\ UNCHANGED <<bmp280_chip_id, bmp280InitDone, bmp280_up, bmp280_ut, baro, counts>>

\* bmp280_calculate that consumes the raw samples: it clears them once used.
bmp280_calculate_consumes(wantP, wantT) ==
    /\ Installed("bmp280_calculate")
    /\ LET rt == CompensateT(bmp280_cal, bmp280_ut)
           cal1 == [bmp280_cal EXCEPT !.t_fine = rt.t_fine]
           p == CompensateP(cal1, bmp280_up)
       IN  /\ bmp280_cal' = cal1
           /\ last' = [op |-> "calculate", ret |-> TRUE, delayed |-> 0,
                       txn |-> <<>>, data |-> <<>>,
                       result |->
                           [wroteP |-> wantP,
                            pressure |-> IF wantP THEN ToInt(p) ELSE 0,
                            wroteT |-> wantT,
                            temperature |-> IF wantT THEN ToInt(rt.T) * 100 ELSE 0],
                       tfineIn |-> bmp280_cal.t_fine,
                       tfineRead |-> cal1.t_fine]
    /\ bmp280_up' = 0
    /\ bmp280_ut' = 0
    /\ UNCHANGED <<bmp280_chip_id, bmp280InitDone, baro, counts>>

\* static void bmp280_calculate(int32_t *pressure, int32_t *temperature);
\* wantP / wantT: whether the caller passed a non-null destination.
\* t = bmp280_compensate_T(bmp280_ut) stores t_fine; p = bmp280_compensate_P(
\* bmp280_up) then reads it.  last.tfineIn is t_fine on entry, last.tfineRead
\* the t_fine that pressure compensation read.
bmp280_calculate(wantP, wantT) ==
    /\ Installed("bmp280_calculate")
    /\ LET rt == CompensateT(bmp280_cal, bmp280_ut)
           cal1 == [bmp280_cal EXCEPT !.t_fine = rt.t_fine]
           p == CompensateP(cal1, bmp280_up)
       IN  /\ bmp280_cal' = cal1
           /\ last' = [op |-> "calculate", ret |-> TRUE, delayed |-> 0,
                       txn |-> <<>>, data |-> <<>>,
                       result |->
                           [wroteP |-> wantP,
                            pressure |-> IF wantP THEN ToInt(p) ELSE 0,
                            wroteT |-> wantT,
                            temperature |-> IF wantT THEN ToInt(rt.T) * 100 ELSE 0],
                       tfineIn |-> bmp280_cal.t_fine,
                       tfineRead |-> cal1.t_fine]
    /\ UNCHANGED <<bmp280_chip_id, bmp280InitDone, bmp280_up, bmp280_ut, baro, counts>>

Next ==
    \/ \E b \in Baros, id \in IdBytes, blk \in CalBlocks, okId, okCal, okWr \in BOOLEAN :
           bmp280Detect(b, id, blk, okId, okCal, okWr) /\ passed' = b /\ UNCHANGED dev
    \/ bmp280_start_ut /\ passed' = 0 /\ UNCHANGED dev
    \/ bmp280_get_ut /\ passed' = 0 /\ UNCHANGED dev
    \/ \E okWr \in BOOLEAN : bmp280_start_up(okWr) /\ passed' = 0 /\ UNCHANGED dev
    \/ \E f \in Frames, okRd \in BOOLEAN :
           bmp280_get_up(f, okRd) /\ passed' = 0 /\ UNCHANGED dev
    \/ \E wantP, wantT \in BOOLEAN :
           bmp280_calculate(wantP, wantT) /\ passed' = 0 /\ UNCHANGED dev

Spec == Init /\ [][Next]_vars

(***************************************************************************)
(* The driver on a tracked device.  The device is in forced mode: a write  *)
(* of BMP280_MODE to the control register starts one conversion, and when  *)
(* the conversion completes its frame replaces the content of the          *)
(* measurement registers, which hold the frame of the conversion before    *)
(* until then.  Conversions are numbered by the write that started them.   *)
(* dev.regs is the six measurement registers, dev.conv the conversion that *)
(* produced them (0: an earlier one), dev.pending the conversion in        *)
(* progress (0: none), dev.starts the number of writes so far,             *)
(* dev.idleStart whether the latest write found the device idle, and       *)
(* dev.collected the conversion whose frame bmp280_get_up decoded last     *)
(* (-1: none).  The bus is fault-free in this specification.               *)
(***************************************************************************)
MaxConversions == 2

IdleDevice(f) == [regs |-> f, conv |-> 0, pending |-> 0, starts |-> 0,
                  idleStart |-> FALSE, collected |-> -1]

InitDevice == DriverInit /\ \E f \in Frames : dev = IdleDevice(f)

\* The device after a write of BMP280_MODE.  A write that finds a conversion
\* in progress either leaves it running or starts over.
ModeWrite(d) ==
    IF d.pending = 0
    THEN {[d EXCEPT !.starts = @ + 1, !.pending = d.starts + 1, !.idleStart = TRUE]}
    ELSE {[d EXCEPT !.starts = @ + 1, !.idleStart = FALSE],
          [d EXCEPT !.starts = @ + 1, !.pending = d.starts + 1, !.idleStart = FALSE]}

\* The conversion in progress completes: its frame reaches the registers.
ConversionCompletes ==
    /\ dev.pending # 0
    /\ \E f \in Frames :
           dev' = [dev EXCEPT !.regs = f, !.conv = dev.pending, !.pending = 0]
    /\ UNCHANGED <<driver, baro, counts, last, passed>>

NextDevice ==
    \/ \E b \in Baros, id \in IdBytes :
           /\ bmp280Detect(b, id, RefCalBlock, TRUE, TRUE, TRUE)
           /\ passed' = b
           /\ dev' \in IF Len(last'.txn) = 3 THEN ModeWrite(dev) ELSE {dev}
    \/ bmp280_start_ut /\ passed' = 0 /\ UNCHANGED dev
    \/ bmp280_get_ut /\ passed' = 0 /\ UNCHANGED dev
    \/ /\ dev.starts < MaxConversions
       /\ bmp280_start_up(TRUE)
       /\ passed' = 0
       /\ dev' \in ModeWrite(dev)
    \/ /\ bmp280_get_up(dev.regs, TRUE)
       /\ passed' = 0
       /\ dev' = [dev EXCEPT !.collected = dev.conv]
    \/ \E wantP, wantT \in BOOLEAN :
           bmp280_calculate(wantP, wantT) /\ passed' = 0 /\ UNCHANGED dev
    \/ ConversionCompletes

SpecDevice == InitDevice /\ [][NextDevice]_vars

(***************************************************************************)
(* Properties.                                                             *)
(***************************************************************************)
IsIdRead(t) == t.rw = "read" /\ t.reg = 208 /\ t.n = 1

IsCalRead(t) == t.rw = "read" /\ t.reg = 136 /\ t.n = 24

IsCtrlWrite(t) == t.rw = "write" /\ t.reg = 244

IsFrameRead(t) == t.rw = "read" /\ t.reg = 247 /\ t.n = 6

\* C1: Detection is idempotent.  Over any sequence of bmp280Detect calls the
\* 24-byte calibration read and the control-register write of detection are
\* each issued at most once, exactly once as soon as the driver is initialised,
\* and every bmp280Detect call made on an initialised driver returns true with
\* no bus transaction (and no change of the counts).
C1_IdempotentDetect ==
    /\ [](/\ nCalRead <= 1
          /\ nDetectWrite <= 1
          /\ bmp280InitDone => (nCalRead = 1 /\ nDetectWrite = 1))
    /\ [][(bmp280InitDone /\ last'.op = "detect")
            => (/\ last'.ret = TRUE
                /\ last'.txn = <<>>
                /\ UNCHANGED <<driver, counts>>)]_vars

\* A second bmp280Detect call has been made on the initialised driver.
C1_Witness ==
    /\ bmp280InitDone
    /\ last.op = "detect"
    /\ last.txn = <<>>
    /\ nCalRead = 1
    /\ nDetectWrite = 1

\* C2: A bmp280Detect call that finds an identity byte other than 0x58 returns
\* false after the identity read alone: no calibration read, no control write,
\* bmp280InitDone still false, calibration and the caller's baro_t unchanged.
C2_IdMismatchFails ==
    [][(~bmp280InitDone /\ last'.op = "detect" /\ bmp280_chip_id' # 88)
         => (/\ last'.ret = FALSE
             /\ Len(last'.txn) = 1
             /\ IsIdRead(last'.txn[1])
             /\ ~bmp280InitDone'
             /\ UNCHANGED <<bmp280_cal, baro, nCalRead, nDetectWrite>>)]_vars

\* A bmp280Detect call has just failed on the identity byte 0x60.
C2_Witness ==
    /\ last.op = "detect"
    /\ last.ret = FALSE
    /\ last.txn[1].ok
    /\ bmp280_chip_id = 96
    /\ ~bmp280InitDone

\* C3 (as claimed): NOT_PRESENT is terminal.  Once a bmp280Detect call has
\* failed identity verification no later call reads the identity register
\* again or initialises the driver.  As a successful call is never followed
\* by another identity read either, no run would hold a second identity read.
C3_NotPresentTerminal == nIdRead >= 1 => nIdRead = 1

\* C3 (amended): a failed identity check is not cached.  It leaves the driver
\* uninitialised, and every later bmp280Detect call made while uninitialised
\* runs the whole probe again: the 20 ms delay, then one identity read, and it
\* initialises the driver and returns true exactly when the chip id it then
\* holds is 0x58.
C3_FailedDetectRetries ==
    /\ []((last.op = "detect" /\ ~last.ret) => ~bmp280InitDone)
    /\ [][(~bmp280InitDone /\ last'.op = "detect")
            => (/\ nIdRead' = nIdRead + 1
                /\ last'.delayed = 20
                /\ Len(last'.txn) >= 1
                /\ IsIdRead(last'.txn[1])
                /\ bmp280InitDone' = (bmp280_chip_id' = 88)
                /\ last'.ret = bmp280InitDone')]_vars

\* The driver was initialised by a bmp280Detect call that followed a failed one.
C3_Witness ==
    /\ bmp280InitDone
    /\ nIdRead = 2
    /\ last.op = "detect"
    /\ Len(last.txn) = 3

\* C4: Inside bmp280_calculate temperature compensation runs before pressure
\* compensation: the t_fine that pressure compensation read is the one computed
\* from the raw temperature sample of that same call, which is also the t_fine
\* the call leaves behind; it is never the value found on entry.
C4_FineTempFresh ==
    last.op = "calculate"
        => (/\ last.tfineRead = CompensateT(bmp280_cal, bmp280_ut).t_fine
            /\ bmp280_cal.t_fine = last.tfineRead)

\* bmp280_calculate ran, with a pressure destination, while bmp280_cal held a
\* non-zero t_fine of an earlier frame that differs from the current frame's.
C4_Witness ==
    /\ last.op = "calculate"
    /\ last.result.wroteP
    /\ last.tfineIn # 0
    /\ last.tfineIn # last.tfineRead
    /\ bmp280_cal.dig_P1 # 0

\* Bytes at the corners of the 8-bit range and of the XLSB nibble.
ByteSamples == {0, 1, 15, 16, 127, 128, 240, 255}

\* The packing of three bytes stated with arithmetic instead of shifts.
Packed20(msb, lsb, xlsb) == msb * 4096 + lsb * 16 + xlsb \div 16

DecodeInRange ==
    \A a \in ByteSamples, b \in ByteSamples, c \in ByteSamples :
        /\ DecodeRaw(a, b, c) \in 0..1048575
        /\ DecodeRaw(a, b, c) = Packed20(a, b, c)

\* C5: bmp280_get_up issues exactly one bus transaction, a 6-byte read at 0xF7,
\* and sets bmp280_up and bmp280_ut to the 20-bit packings of bytes 0..2 and
\* 3..5 of that frame; both raw samples lie in 0..1048575 in every state, and
\* so does the packing of every sampled byte triple.
C5_GetDecodesFrame ==
    /\ bmp280_up \in 0..1048575
    /\ bmp280_ut \in 0..1048575
    /\ DecodeInRange
    /\ last.op = "get_up"
        => (/\ Len(last.txn) = 1
            /\ IsFrameRead(last.txn[1])
            /\ bmp280_up = Packed20(last.data[1], last.data[2], last.data[3])
            /\ bmp280_ut = Packed20(last.data[4], last.data[5], last.data[6]))

\* bmp280_get_up has just decoded the all-ones frame.
C5_Witness ==
    /\ last.op = "get_up"
    /\ last.txn[1].ok
    /\ last.data = <<255, 255, 255, 255, 255, 255>>
    /\ bmp280_up = 1048575
    /\ bmp280_ut = 1048575

\* bmp280_get_up has just read a frame whose pressure bytes are 0xAB 0xCD 0xE0.
ReadABCDE0 ==
    /\ last.op = "get_up"
    /\ SubSeq(last.data, 1, 3) = <<171, 205, 224>>

\* C6 (as claimed): the byte triplet (0xAB, 0xCD, 0xE0) decodes to 703182.
C6_DecodesTo703182 == ReadABCDE0 => bmp280_up = 703182

\* C6 (amended): the byte triplet (0xAB, 0xCD, 0xE0) decodes to
\* (0xAB << 12) | (0xCD << 4) | (0xE0 >> 4) = 0xABCDE = 703710.
C6_DecodesTo703710 == ReadABCDE0 => bmp280_up = 703710

C6_Witness == ReadABCDE0 /\ last.txn[1].ok

\* C7: bmp280_start_up can be called again right after itself, and each call
\* issues exactly one bus transaction, a write of 0x31 to the control register
\* 0xF4 (pressure oversampling code 4 in bits 2-4, temperature oversampling
\* code 1 in bits 5-7, forced mode 1 in bits 0-1), and changes neither the raw
\* samples nor the calibration nor bmp280InitDone.
C7_StartRearms ==
    /\ [](last.op = "start_up" => ENABLED (\E okWr \in BOOLEAN : bmp280_start_up(okWr)))
    /\ [][last'.op = "start_up"
            => (/\ Len(last'.txn) = 1
                /\ IsCtrlWrite(last'.txn[1])
                /\ last'.txn[1].n = 49
                /\ (last'.txn[1].n \div 4) % 8 = 4
                /\ (last'.txn[1].n \div 32) % 8 = 1
                /\ last'.txn[1].n % 4 = 1
                /\ UNCHANGED <<driver, baro, counts>>)]_vars

\* bmp280_start_up has run while raw samples of an earlier get were stored.
C7_Witness ==
    /\ last.op = "start_up"
    /\ last.txn[1].ok
    /\ bmp280_up # 0

\* C8: bmp280_start_ut and bmp280_get_ut issue no bus transaction and change
\* no driver state, and every baro_t filled by a successful bmp280Detect
\* reports a temperature latency of 0.
C8_TemperatureChannelNoOp ==
    /\ [](\A b \in Baros : baro[b].get_ut # "NULL" => baro[b].ut_delay = 0)
    /\ [][last'.op \in {"start_ut", "get_ut"}
            => (/\ last'.txn = <<>>
                /\ last'.delayed = 0
                /\ UNCHANGED <<driver, baro, counts>>)]_vars

\* bmp280_get_ut has run, through a filled baro_t, with raw samples stored.
C8_Witness ==
    /\ last.op = "get_ut"
    /\ bmp280_up # 0
    /\ \E b \in Baros : baro[b].get_ut = "bmp280_get_ut" /\ baro[b].ut_delay = 0

\* C9 (as claimed): a failed bus transaction inside bmp280Detect keeps the
\* call from reporting success and from setting bmp280InitDone.
C9_BusFaultPropagates ==
    (last.op = "detect" /\ \E i \in 1..Len(last.txn) : ~last.txn[i].ok)
        => (~last.ret /\ ~bmp280InitDone)

\* C10 (as claimed): no driver call delays.
C10_NoCallDelays == last.delayed = 0

\* C10 (amended): bmp280_start_ut, bmp280_get_ut, bmp280_start_up,
\* bmp280_get_up, bmp280_calculate and a bmp280Detect call on an initialised
\* driver never delay; a bmp280Detect call that probes the device (one made
\* while bmp280InitDone is false) delays 20 ms once, before its identity read.
C10_OnlyProbeDelays ==
    last.delayed = IF last.op = "detect" /\ Len(last.txn) > 0 THEN 20 ELSE 0

\* A probing bmp280Detect call has just delayed.
C10_Witness ==
    /\ last.op = "detect"
    /\ last.delayed = 20
    /\ IsIdRead(last.txn[1])

\* The oversampling codes of the device's control register.
OsrCodes == 0..5

\* The latency bound as the datasheet states it, in microseconds, for
\* oversampling codes t (temperature) and p (pressure).
ClosedFormDelay(t, p) ==
    ((20 + 37 * ((2^t) \div 2 + (2^p) \div 2) + (IF p # 0 THEN 10 ELSE 0) + 15)
        \div 16) * 1000

\* C11: The pressure latency bound that bmp280Detect stores in a baro_t is the
\* closed form ((T_INIT_MAX + T_MEASURE_PER_OSRS_MAX * (2^osrs_t / 2 +
\* 2^osrs_p / 2) + (osrs_p # 0 ? T_SETUP_PRESSURE_MAX : 0) + 15) / 16) * 1000
\* with integer division, 23000 for pressure x8 / temperature x1; and over the
\* oversampling codes 0..5 the expression is non-decreasing in each code.
C11_LatencyBound ==
    /\ \A b \in Baros :
          baro[b].start_up = "bmp280_start_up"
              => /\ baro[b].up_delay = 23000
                 /\ baro[b].up_delay
                        = ClosedFormDelay(BMP280_TEMPERATURE_OSR, BMP280_PRESSURE_OSR)
    /\ BMP280_TEMPERATURE_OSR = 1
    /\ BMP280_PRESSURE_OSR = 4
    /\ \A t, p \in OsrCodes :
          /\ UpDelay(t, p) = ClosedFormDelay(t, p)
          /\ t < 5 => UpDelay(t, p) <= UpDelay(t + 1, p)
          /\ p < 5 => UpDelay(t, p) <= UpDelay(t, p + 1)

\* bmp280Detect has probed the device and filled a baro_t.
C11_Witness ==
    /\ last.op = "detect"
    /\ last.ret
    /\ Len(last.txn) = 3
    /\ \E b \in Baros : baro[b].up_delay = 23000

\* C12: bmp280_compensate_P returns exactly 0 whenever its divisor
\* (1 + var1 / 32768) * dig_P1 is zero, as it is whenever dig_P1 = 0, for
\* every raw pressure and every t_fine; bmp280_calculate then stores 0 as the
\* pressure.
C12_ZeroDivisorGivesZero ==
    /\ \A c \in DecodedCals, tf \in TFineValues, adc_P \in RawValues :
          c.dig_P1 = 0 => PressTable[c, tf, adc_P] = FZero
    /\ (last.op = "calculate" /\ last.result.wroteP /\ bmp280_cal.dig_P1 = 0)
          => last.result.pressure = 0

\* bmp280_calculate has stored a pressure computed from a non-zero raw sample
\* and a non-zero t_fine on a calibration whose dig_P1 is 0 and whose other
\* coefficients are the reference ones.
C12_Witness ==
    /\ last.op = "calculate"
    /\ last.result.wroteP
    /\ bmp280_cal.dig_P1 = 0
    /\ bmp280_cal.dig_P2 # 0
    /\ bmp280_cal.t_fine # 0
    /\ bmp280_up # 0

\* The integer n is the float f truncated toward zero: n has f's sign and
\* |n| <= |f| < |n| + 1.
IsTruncation(f, n) ==
    /\ n < 0 => f.s = 1
    /\ n > 0 => f.s = 0
    /\ IF f.e >= 0 THEN Abs(n) = f.m * 2^(f.e)
       ELSE IF f.e <= -24 THEN n = 0
       ELSE /\ Abs(n) * 2^(0 - f.e) <= f.m
            /\ f.m < (Abs(n) + 1) * 2^(0 - f.e)

\* C13: bmp280_calculate stores as pressure the compensated pressure truncated
\* toward zero, and as temperature the compensated temperature truncated
\* toward zero to whole degrees and then multiplied by 100, hence a multiple
\* of 100; an output is written exactly when its destination was passed, and
\* t_fine is the fresh value of temperature compensation either way.
C13_TruncatedOutputs ==
    last.op = "calculate" =>
        LET T == CompensateT(bmp280_cal, bmp280_ut)
            p == CompensateP(bmp280_cal, bmp280_up)
        IN  /\ bmp280_cal.t_fine = T.t_fine
            /\ last.result.wroteP => IsTruncation(p, last.result.pressure)
            /\ last.result.wroteT
                  => /\ last.result.temperature % 100 = 0
                     /\ IsTruncation(T.T, last.result.temperature \div 100)
            /\ ~last.result.wroteP => last.result.pressure = 0
            /\ ~last.result.wroteT => last.result.temperature = 0

\* bmp280_calculate has written both outputs for the reference calibration and
\* the data sheet's frame: 25.08 degrees is returned as 2500, 100653.27 Pa as
\* 100653.
C13_Witness ==
    /\ last.op = "calculate"
    /\ last.result.wroteP
    /\ last.result.wroteT
    /\ bmp280_ut = 519888
    /\ bmp280_up = 415148
    /\ last.result.temperature = 2500
    /\ last.result.pressure = 100653

\* The float f lies within 0.01 of 25.08: 25.07 <= f <= 25.09.  A binary32
\* number in [16, 32) has exponent -19; both sides are scaled by 100 * 2^19.
Near25_08(f) ==
    /\ f.s = 0
    /\ f.e = -19
    /\ 2507 * 2^19 <= 100 * f.m
    /\ 100 * f.m <= 2509 * 2^19

\* C14: With dig_T1 = 27504, dig_T2 = 26435, dig_T3 = -1000 and the raw
\* temperature 519888, bmp280_compensate_T returns a temperature within 0.01
\* of 25.08 degrees and stores 128422 in t_fine.
C14_ReferenceTemperature ==
    /\ LET r == bmp280_compensate_T(LoadCal(ZeroCal, RefCalBlock), 519888)
       IN  r.t_fine = 128422 /\ Near25_08(r.T)
    /\ (/\ last.op = "calculate"
        /\ bmp280_cal.dig_T1 = 27504
        /\ bmp280_cal.dig_T2 = 26435
        /\ bmp280_cal.dig_T3 = -1000
        /\ bmp280_ut = 519888)
          => /\ bmp280_cal.t_fine = 128422
             /\ last.result.wroteT => last.result.temperature = 2500

\* bmp280_calculate has compensated the raw temperature 519888 on the
\* reference calibration, with a different t_fine held before.
C14_Witness ==
    /\ last.op = "calculate"
    /\ bmp280_cal.dig_T1 = 27504
    /\ bmp280_cal.dig_T2 = 26435
    /\ bmp280_cal.dig_T3 = -1000
    /\ bmp280_ut = 519888
    /\ last.tfineIn # 128422
    /\ bmp280_cal.t_fine = 128422

\* C15: Once bmp280Detect has succeeded, no call changes any of the twelve
\* calibration coefficients; t_fine is changed only by bmp280_calculate (its
\* temperature compensation) and never by bmp280Detect, whose 24-byte load
\* stops short of it; bmp280_up and bmp280_ut are changed only by
\* bmp280_get_up.
C15_CalibrationFrozen ==
    [][/\ bmp280InitDone => CalKey(bmp280_cal') = CalKey(bmp280_cal)
       /\ bmp280_cal'.t_fine # bmp280_cal.t_fine => last'.op = "calculate"
       /\ last'.op = "detect" => bmp280_cal'.t_fine = bmp280_cal.t_fine
       /\ <<bmp280_up', bmp280_ut'>> # <<bmp280_up, bmp280_ut>>
             => last'.op = "get_up"]_vars

\* bmp280Detect has been called again after a frame was collected and
\* compensated: the reference coefficients, t_fine and the raw samples are
\* all still in place.
C15_Witness ==
    /\ bmp280InitDone
    /\ last.op = "detect"
    /\ last.txn = <<>>
    /\ bmp280_cal.dig_T1 = 27504
    /\ bmp280_cal.dig_P9 = 6000
    /\ bmp280_cal.t_fine = 128422
    /\ bmp280_up = 415148

\* The step is a bmp280_get_up call (a completing conversion changes
\* dev.pending and leaves last).
IsGetUpStep == last'.op = "get_up" /\ dev'.pending = dev.pending

Populated(s) ==
    /\ s.ut_delay = 0
    /\ s.up_delay = 23000
    /\ s.start_ut = "bmp280_start_ut"
    /\ s.get_ut = "bmp280_get_ut"
    /\ s.start_up = "bmp280_start_up"
    /\ s.get_up = "bmp280_get_up"
    /\ s.calculate = "bmp280_calculate"

\* C17 (as claimed): every bmp280Detect call that returns true leaves the
\* baro_t passed to it fully populated, a call made with a fresh baro_t on the
\* initialised driver included.
C17_SuccessPopulates ==
    (last.op = "detect" /\ last.ret) => Populated(baro[passed])

\* C18: Whenever bmp280InitDone is true the chip id held is 0x58 and the
\* calibration region has been read exactly once; the bus traffic of the
\* bmp280Detect call that initialises the driver is one 1-byte identity read,
\* one 24-byte calibration read and one control-register write, in that
\* order; and no calibration read, control-register write or frame read is
\* issued while the chip id held is not 0x58.
C18_IdentityFirst ==
    /\ bmp280InitDone => (bmp280_chip_id = 88 /\ nCalRead = 1)
    /\ (last.op = "detect" /\ last.ret /\ last.txn # <<>>)
          => /\ Len(last.txn) = 3
             /\ IsIdRead(last.txn[1])
             /\ IsCalRead(last.txn[2])
             /\ IsCtrlWrite(last.txn[3])
    /\ bmp280_chip_id # 88
          => /\ nCalRead = 0
             /\ nDetectWrite = 0
             /\ \A i \in 1..Len(last.txn) : IsIdRead(last.txn[i])
    /\ \A i \in 1..Len(last.txn) :
          (IsCalRead(last.txn[i]) \/ IsCtrlWrite(last.txn[i]) \/ IsFrameRead(last.txn[i]))
              => (bmp280_chip_id = 88 /\ nIdRead >= 1)

\* The driver has been initialised after an identity read that did not match,
\* and a frame has been read since.
C18_Witness ==
    /\ bmp280InitDone
    /\ nIdRead = 2
    /\ nCalRead = 1
    /\ last.op = "get_up"
    /\ IsFrameRead(last.txn[1])

\* C19: bmp280_calculate issues no bus transaction and changes neither the
\* raw samples nor the calibration coefficients; a bmp280_calculate call that
\* follows another returns, in each output both calls write, the same value,
\* and leaves the same t_fine, whatever t_fine held before the first.
C19_CalculateRepeatable ==
    [][last'.op = "calculate" =>
         /\ last'.txn = <<>>
         /\ UNCHANGED <<bmp280_up, bmp280_ut, counts>>
         /\ CalKey(bmp280_cal') = CalKey(bmp280_cal)
         /\ last.op = "calculate" =>
               /\ bmp280_cal'.t_fine = bmp280_cal.t_fine
               /\ (last.result.wroteP /\ last'.result.wroteP)
                     => last'.result.pressure = last.result.pressure
               /\ (last.result.wroteT /\ last'.result.wroteT)
                     => last'.result.temperature = last.result.temperature]_vars

\* bmp280_calculate has run on the reference calibration and the data sheet's
\* frame with t_fine already holding, from an earlier bmp280_calculate, the
\* value it leaves; both outputs were written.
C19_Witness ==
    /\ last.op = "calculate"
    /\ last.tfineIn = 128422
    /\ bmp280_cal.t_fine = 128422
    /\ bmp280_ut = 519888
    /\ bmp280_up = 415148
    /\ last.result.wroteP
    /\ last.result.wroteT
    /\ last.result.pressure = 100653

====
